---- MODULE Spec2Model ----
(***************************************************************************)
(* Model of src/2048-ai.py: the 4x4 board transformations (move,           *)
(* merge_left, rotate, reverse, add_random_tile, game_over,                *)
(* get_possible_moves), the heuristic evaluator, the memoised expectimax   *)
(* search and the play_game driver.                                        *)
(*                                                                         *)
(* A board is a sequence of 4 rows, each a sequence of 4 naturals; Python  *)
(* index k is TLA+ index k+1.  Heuristic scores are kept exact: every      *)
(* score is ten times the Python value, held as a reduced fraction         *)
(* [n, d]; d = 0 stands for -float('inf').  Python computes the same       *)
(* scores in binary floating point, so where two moves tie exactly its     *)
(* rounding may order them; the model orders exact values.                 *)
(***************************************************************************)
EXTENDS Integers, Sequences, FiniteSets, TLC

VARIABLES
    grid,                 \* the board the caller holds
    transposition_table,  \* the module-level dict: key -> <<score, direction>>
    pc,                   \* where the caller is
    moves_made,           \* play_game's counter
    best_direction,       \* the direction the last top-level search returned
    arg,                  \* history: the caller's board when the last call began
    op,                   \* history: the last call, <<name, parameter>>
    ret,                  \* history: what the last call returned
    searches,             \* history: top-level searches made by the search harness
    old_keys,             \* history: keys stored while an earlier game ran
    heap,                 \* the row lists that exist, by reference (object view)
    held,                 \* the references of the rows of the caller's board
    given                 \* history: the references passed to the last call

\* the variables of the object view of the boards
heapvars == <<heap, held, given>>

vars == <<grid, transposition_table, pc, moves_made, best_direction,
          arg, op, ret, searches, old_keys, heap, held, given>>

\* the object view is not used
NoHeap == heap = <<>> /\ held = <<>> /\ given = <<>>

\* ------------------------------------------------------------------ bounds

\* Largest exponent of a tile drawn as an input of the board operations.
MaxExp == 2

\* Operations applied after initialize_game in the free-play specification.
MaxOps == 2

\* Top-level searches that share one table in the search specification.
MaxSearches == 2

\* Largest max_depth passed to a top-level search.
MaxDepthBound == 3

\* Turns of one modelled game: stands for move_limit = 1000 of play_game.
move_limit == 2

\* ------------------------------------------------------------ board basics

N == 4

Idx == 1..N

Directions == <<"up", "down", "left", "right">>

None == "None"

ZeroRow == [c \in Idx |-> 0]

EmptyGrid == [r \in Idx |-> ZeroRow]

\* the list with the N items f[1], ..., f[N]
ListOf(f) == <<f[1], f[2], f[3], f[4]>>

\* body(v) with v bound to the value of e, so that e is evaluated once
Bind(e, body(_)) == CHOOSE x \in {body(v) : v \in {e}} : TRUE

RECURSIVE Pow2(_)
Pow2(e) == IF e = 0 THEN 1 ELSE 2 * Pow2(e - 1)

\* ------------------------------------------------------- reverse, rotate

\* row[::-1] for every row
reverse(g) == ListOf([r \in Idx |-> ListOf([c \in Idx |-> g[r][N + 1 - c]])])

\* [list(row) for row in zip(*grid[::-1])]: one clockwise quarter turn
RotateOnce(g) == ListOf([j \in Idx |-> ListOf([i \in Idx |-> g[N + 1 - i][j]])])

RECURSIVE RotateTimes(_, _)
RotateTimes(g, k) == IF k = 0 THEN g ELSE RotateTimes(RotateOnce(g), k - 1)

\* times = times % 4 (Python's %, never negative), then that many quarter turns
rotate(g, times) == RotateTimes(g, times % 4)

\* ------------------------------------------------------------- merge_left

\* [tile for tile in row if tile != 0]
NonZero(row) == SelectSeq(row, LAMBDA t : t # 0)

\* del new_row[i + 1] (i is the Python index)
DelAt(s, i) == SubSeq(s, 1, i + 1) \o SubSeq(s, i + 3, Len(s))

\* a merge that adds 2 to the left tile instead of doubling it
MergeAtAddsTwo(new_row, i) ==
    Append(DelAt([new_row EXCEPT ![i + 1] = new_row[i + 1] + 2], i), 0)

\* a merge that doubles the left tile and leaves the right tile in place
MergeAtKeepsRight(new_row, i) ==
    [new_row EXCEPT ![i + 1] = 2 * new_row[i + 1]]

\* the body of `if new_row[i] == new_row[i + 1]`
MergeAt(new_row, i) ==
    Append(DelAt([new_row EXCEPT ![i + 1] = 2 * new_row[i + 1]], i), 0)

\* the while loop of merge_left, from Python index i
RECURSIVE MergeLoop(_, _)
MergeLoop(new_row, i) ==
    IF i < Len(new_row) - 1
    THEN IF new_row[i + 1] = new_row[i + 2]
         THEN MergeLoop(MergeAt(new_row, i), i + 1)
         ELSE MergeLoop(new_row, i + 1)
    ELSE new_row

\* new_row += [0] * (4 - len(new_row))
Pad(new_row) ==
    new_row \o SubSeq(<<0, 0, 0, 0>>, 1, IF N > Len(new_row) THEN N - Len(new_row) ELSE 0)

\* a left-merge that runs the pass a second time over its own result
MergeRowTwice(row) == Pad(MergeLoop(MergeLoop(NonZero(row), 0), 0))

MergeRow(row) == Pad(MergeLoop(NonZero(row), 0))

merge_left(g) == ListOf([r \in Idx |-> MergeRow(g[r])])

\* ------------------------------------------------------------------- move

\* a move whose 'right' branch forgets to reverse the merged grid back
MoveRightNotRestored(g, direction) ==
    CASE direction = "up"    -> rotate(merge_left(rotate(g, 1)), -1)
      [] direction = "down"  -> rotate(merge_left(rotate(g, -1)), 1)
      [] direction = "left"  -> merge_left(g)
      [] direction = "right" -> merge_left(reverse(g))
      [] OTHER -> g

\* a move whose 'up' branch forgets to rotate the merged grid back
MoveUpNotRotatedBack(g, direction) ==
    CASE direction = "up"    -> merge_left(rotate(g, 1))
      [] direction = "down"  -> rotate(merge_left(rotate(g, -1)), 1)
      [] direction = "left"  -> merge_left(g)
      [] direction = "right" -> reverse(merge_left(reverse(g)))
      [] OTHER -> g

move(g, direction) ==
    CASE direction = "up"    -> rotate(merge_left(rotate(g, 1)), -1)
      [] direction = "down"  -> rotate(merge_left(rotate(g, -1)), 1)
      [] direction = "left"  -> merge_left(g)
      [] direction = "right" -> reverse(merge_left(reverse(g)))
      [] OTHER -> g

\* ---------------------------------------------- game_over, possible moves

\* (r, c) for r in range(4) for c in range(4), as 1-based pairs
AllCells == [k \in 1..(N * N) |-> <<((k - 1) \div N) + 1, ((k - 1) % N) + 1>>]

\* row-major list of the (r, c) with grid[r][c] == 0
empty_cells(g) == SelectSeq(AllCells, LAMBDA rc : g[rc[1]][rc[2]] = 0)

game_over(g) ==
    IF \E r \in Idx : \E c \in Idx : g[r][c] = 0
    THEN FALSE
    ELSE ~ \E x \in Idx : \E y \in Idx :
              \/ (x + 1 <= N /\ g[x][y] = g[x + 1][y])
              \/ (y + 1 <= N /\ g[x][y] = g[x][y + 1])

RECURSIVE MovesFrom(_, _)
MovesFrom(g, k) ==
    IF k > Len(Directions) THEN <<>>
    ELSE LET new_grid == move(g, Directions[k])
         IN (IF new_grid # g THEN <<<<Directions[k], new_grid>>>> ELSE <<>>)
            \o MovesFrom(g, k + 1)

get_possible_moves(g) == MovesFrom(g, 1)

\* -------------------------------------------------------- add_random_tile

\* grid[row][col] = value
SetCell(g, cell, value) == [g EXCEPT ![cell[1]][cell[2]] = value]

\* an add_random_tile that chooses among all the cells, empty or not
AddRandomTileAnyCell(g) ==
    IF empty_cells(g) # <<>>
    THEN { SetCell(g, <<r, c>>, v) : r \in Idx, c \in Idx, v \in {2, 4} }
    ELSE {g}

\* the boards add_random_tile can leave in `grid`: one per (cell, value)
\* outcome of random.choice and random.random, or the board itself
add_random_tile(g) ==
    IF empty_cells(g) # <<>>
    THEN { SetCell(g, empty_cells(g)[k], v) :
             k \in 1..Len(empty_cells(g)), v \in {2, 4} }
    ELSE {g}

\* ------------------------------------------------------------- heuristics

\* math.log2 of a power of two
RECURSIVE Log2(_)
Log2(v) == IF v <= 1 THEN 0 ELSE 1 + Log2(v \div 2)

\* math.log2(v) if v else 0
LogOrZero(v) == IF v # 0 THEN Log2(v) ELSE 0

Abs(x) == IF x < 0 THEN -x ELSE x

MaxOf(a, b) == IF a >= b THEN a ELSE b

\* f[lo] + ... + f[hi], summed by halves
RECURSIVE SumRange(_, _, _)
SumRange(f, lo, hi) ==
    IF lo > hi THEN 0
    ELSE IF lo = hi THEN f[lo]
    ELSE SumRange(f, lo, (lo + hi) \div 2) + SumRange(f, ((lo + hi) \div 2) + 1, hi)

\* sum of f over the N*N cells, f a function of the 1-based cell number
SumCells(f) == SumRange(f, 1, N * N)

RowOf(k) == ((k - 1) \div N) + 1

ColOf(k) == ((k - 1) % N) + 1

\* sum(row.count(0) for row in grid)
empty_tile_heuristic(g) ==
    SumCells([k \in 1..(N * N) |-> IF g[RowOf(k)][ColOf(k)] = 0 THEN 1 ELSE 0])

\* the while loop of smoothness_heuristic from (nx, ny): the penalty of the
\* nearest non-empty cell in direction (dx, dy), 0 when there is none
RECURSIVE SmoothScan(_, _, _, _, _, _)
SmoothScan(g, value, nx, ny, dx, dy) ==
    IF nx \in Idx /\ ny \in Idx
    THEN IF g[nx][ny] # 0
         THEN Abs(value - Log2(g[nx][ny]))
         ELSE SmoothScan(g, value, nx + dx, ny + dy, dx, dy)
    ELSE 0

smoothness_heuristic(g) ==
    SumCells([k \in 1..(N * N) |->
        LET x == RowOf(k)
            y == ColOf(k)
        IN IF g[x][y] # 0
           THEN - SmoothScan(g, Log2(g[x][y]), x + 1, y, 1, 0)
                - SmoothScan(g, Log2(g[x][y]), x, y + 1, 0, 1)
           ELSE 0])

\* a pair rule whose total of rises gains next - current, a positive amount
PairDeltaPositiveRise(current, next, which) ==
    IF which = 1 /\ current > next THEN next - current
    ELSE IF which = 2 /\ next > current THEN next - current
    ELSE 0

\* what the pair (line[i], line[i + 1]) adds to the total of falls (which = 1)
\* or to the total of rises (which = 2), on the log2 values of a line
PairDelta(current, next, which) ==
    IF which = 1 /\ current > next THEN next - current
    ELSE IF which = 2 /\ next > current THEN current - next
    ELSE 0

\* what one line of 4 cells, given by its log2 values, adds to a total
LineTotal(logs, which) ==
    PairDelta(logs[1], logs[2], which) + PairDelta(logs[2], logs[3], which)
    + PairDelta(logs[3], logs[4], which)

\* totals = [0, 0, 0, 0] after both loops of monotonicity_heuristic
MonoTotals(g) ==
    Bind(ListOf([x \in Idx |-> ListOf([y \in Idx |-> LogOrZero(g[x][y])])]),
         LAMBDA rows :
            Bind(ListOf([y \in Idx |-> ListOf([x \in Idx |-> rows[x][y]])]),
                 LAMBDA cols :
                    <<SumRange([x \in Idx |-> LineTotal(rows[x], 1)], 1, N),
                      SumRange([x \in Idx |-> LineTotal(rows[x], 2)], 1, N),
                      SumRange([y \in Idx |-> LineTotal(cols[y], 1)], 1, N),
                      SumRange([y \in Idx |-> LineTotal(cols[y], 2)], 1, N)>>))

monotonicity_heuristic(g) ==
    Bind(MonoTotals(g),
         LAMBDA totals : MaxOf(totals[1], totals[2]) + MaxOf(totals[3], totals[4]))

\* max(max(row) for row in grid)
MaxCell(g) ==
    CHOOSE m \in {g[r][c] : r \in Idx, c \in Idx} : \A r \in Idx : \A c \in Idx : g[r][c] <= m

\* log2 of the largest tile, 0 for the all-empty board
max_tile_heuristic(g) == LogOrZero(MaxCell(g))

\* the weights of combined_heuristic, times ten
empty_weight == 27

max_tile_weight == 10

smoothness_weight == 1

monotonicity_weight == 10

\* ten times combined_heuristic(grid), an integer
combined_heuristic(g) ==
    empty_weight * empty_tile_heuristic(g)
    + max_tile_weight * max_tile_heuristic(g)
    + smoothness_weight * smoothness_heuristic(g)
    + monotonicity_weight * monotonicity_heuristic(g)

\* ----------------------------------------------------------------- scores

RECURSIVE Gcd(_, _)
Gcd(a, b) == IF b = 0 THEN a ELSE Gcd(b, a % b)

\* the fraction n/d in lowest terms (d > 0)
Frac(n, d) == LET q == Gcd(Abs(n), d) IN [n |-> n \div q, d |-> d \div q]

\* a start value for max_score that no score exceeds
PlusInf == [n |-> 1000000, d |-> 1]

\* -float('inf')
NegInf == [n |-> 0, d |-> 0]

IsNegInf(s) == s.d = 0

\* a comparison that also takes an equal score
GtOrEqual(a, b) ==
    IF IsNegInf(a) THEN IsNegInf(b)
    ELSE IF IsNegInf(b) THEN TRUE
    ELSE a.n * b.d >= b.n * a.d

\* Python's a > b on floats: the whole parts decide, and the fractional parts
\* over the least common denominator where the whole parts are equal
Gt(a, b) ==
    IF IsNegInf(a) THEN FALSE
    ELSE IF IsNegInf(b) THEN TRUE
    ELSE IF (a.n \div a.d) # (b.n \div b.d) THEN (a.n \div a.d) > (b.n \div b.d)
    ELSE Bind(Gcd(a.d, b.d),
              LAMBDA q : (a.n % a.d) * (b.d \div q) > (b.n % b.d) * (a.d \div q))

\* the two probabilities given to the wrong tile values
SwappedProbabilities == <<1, 9>>

\* the probabilities [0.9, 0.1], times ten
probabilities == <<9, 1>>

tile_values == <<2, 4>>

\* a + b on finite scores, over the least common denominator
AddFrac(a, b) ==
    Bind(Gcd(a.d, b.d),
         LAMBDA q : Frac(a.n * (b.d \div q) + b.n * (a.d \div q),
                         (a.d \div q) * b.d))

\* score += (probability / total_tiles) * tile_score, probability in tenths
AddWeighted(score, probability, total_tiles, tile_score) ==
    IF IsNegInf(score) \/ IsNegInf(tile_score) THEN NegInf
    ELSE AddFrac(score,
                 Frac(probability * tile_score.n, 10 * total_tiles * tile_score.d))

\* ------------------------------------------------------------- expectimax

\* a key that leaves the board out
TableKeyWithoutGrid(g, depth, player_turn) == <<depth, player_turn>>

\* a key that leaves the depth out
TableKeyWithoutDepth(g, depth, player_turn) == <<g, player_turn>>

\* (grid_tuple, depth, player_turn)
TableKey(g, depth, player_turn) == <<g, depth, player_turn>>

\* a depth test that is one level late
AtLeafOneLate(g, depth, max_depth) == depth = max_depth + 1 \/ game_over(g)

\* depth == max_depth or game_over(grid)
AtLeaf(g, depth, max_depth) == depth = max_depth \/ game_over(g)

\* a store that keeps the score and drops the direction
StoreWithoutDirection(tt, key, score, direction) == (key :> <<score, None>>) @@ tt

\* transposition_table[key] = (score, direction)
Store(tt, key, score, direction) == (key :> <<score, direction>>) @@ tt

\* one record of the call log: the node, how it returned, and the depths it
\* passed to its recursive calls
Call(g, depth, player_turn, how, child_depths, nchildren) ==
    [grid |-> g, depth |-> depth, player_turn |-> player_turn, how |-> how,
     child_depths |-> child_depths, nchildren |-> nchildren]

RECURSIVE expectimax(_, _, _, _, _)
RECURSIVE MaxLoop(_, _, _, _, _, _)
RECURSIVE ChanceLoop(_, _, _, _, _, _, _)

\* one iteration of the for loop of the maximizing branch, on the k-th
\* possible move; acc holds max_score, best_direction, the table and the call
\* log so far
MaxStep(moves, k, depth, max_depth, acc) ==
    Bind(expectimax(moves[k][2], depth + 1, FALSE, max_depth, acc.tt),
         LAMBDA r :
            [max_score |-> IF Gt(r.score, acc.max_score) THEN r.score ELSE acc.max_score,
             best_direction |-> IF Gt(r.score, acc.max_score)
                                THEN moves[k][1] ELSE acc.best_direction,
             tt |-> r.tt,
             calls |-> acc.calls \cup r.calls,
             child_depths |-> acc.child_depths \cup {r.at}])

\* iterations lo..hi of that loop, in order
MaxLoop(moves, lo, hi, depth, max_depth, acc) ==
    IF lo > hi THEN acc
    ELSE IF lo = hi THEN MaxStep(moves, lo, depth, max_depth, acc)
    ELSE Bind(MaxLoop(moves, lo, (lo + hi) \div 2, depth, max_depth, acc),
              LAMBDA half :
                 MaxLoop(moves, ((lo + hi) \div 2) + 1, hi, depth, max_depth, half))

\* one iteration of the two nested for loops of the chance branch, flattened:
\* step j is cell (j-1) div 2 with value (j-1) mod 2
ChanceStep(g, cells, j, depth, max_depth, acc) ==
    Bind(SetCell(g, cells[((j - 1) \div 2) + 1], tile_values[((j - 1) % 2) + 1]),
         LAMBDA grid_new :
            Bind(expectimax(grid_new, depth + 1, TRUE, max_depth, acc.tt),
                 LAMBDA r :
                    [score |-> AddWeighted(acc.score, probabilities[((j - 1) % 2) + 1],
                                           Len(cells), r.score),
                     tt |-> r.tt,
                     calls |-> acc.calls \cup r.calls,
                     child_depths |-> acc.child_depths \cup {r.at}]))

\* iterations lo..hi of those loops, in order
ChanceLoop(g, cells, lo, hi, depth, max_depth, acc) ==
    IF lo > hi THEN acc
    ELSE IF lo = hi THEN ChanceStep(g, cells, lo, depth, max_depth, acc)
    ELSE Bind(ChanceLoop(g, cells, lo, (lo + hi) \div 2, depth, max_depth, acc),
              LAMBDA half :
                 ChanceLoop(g, cells, ((lo + hi) \div 2) + 1, hi, depth, max_depth, half))

\* score = combined_heuristic(grid); store (score, None); return score, None
Leaf(g, depth, player_turn, tt, how) ==
    Bind(Frac(combined_heuristic(g), 1),
         LAMBDA score :
            [score |-> score, dir |-> None, at |-> depth,
             tt |-> Store(tt, TableKey(g, depth, player_turn), score, None),
             calls |-> {Call(g, depth, player_turn, how, {}, 0)}])

\* the maximizing branch
MaxNode(g, depth, max_depth, tt) ==
    Bind(get_possible_moves(g),
         LAMBDA moves :
            Bind(MaxLoop(moves, 1, Len(moves), depth, max_depth,
                         [max_score |-> NegInf, best_direction |-> None,
                          tt |-> tt, calls |-> {}, child_depths |-> {}]),
                 LAMBDA r :
                    [score |-> r.max_score, dir |-> r.best_direction, at |-> depth,
                     tt |-> Store(r.tt, TableKey(g, depth, TRUE),
                                  r.max_score, r.best_direction),
                     calls |-> r.calls \cup {Call(g, depth, TRUE, "max",
                                                  r.child_depths, Len(moves))}]))

\* the chance branch
ChanceNode(g, depth, max_depth, tt) ==
    Bind(empty_cells(g),
         LAMBDA cells :
            IF cells = <<>>
            THEN Leaf(g, depth, FALSE, tt, "full")
            ELSE Bind(ChanceLoop(g, cells, 1, 2 * Len(cells), depth, max_depth,
                                 [score |-> Frac(0, 1), tt |-> tt,
                                  calls |-> {}, child_depths |-> {}]),
                      LAMBDA r :
                         [score |-> r.score, dir |-> None, at |-> depth,
                          tt |-> Store(r.tt, TableKey(g, depth, FALSE), r.score, None),
                          calls |-> r.calls \cup {Call(g, depth, FALSE, "chance",
                                                       r.child_depths, 2 * Len(cells))}]))

\* expectimax(grid, depth, player_turn, max_depth) run against table tt:
\* the returned (score, dir), the depth it ran at, the table afterwards and
\* the log of the calls
expectimax(g, depth, player_turn, max_depth, tt) ==
    IF TableKey(g, depth, player_turn) \in DOMAIN tt
    THEN [score |-> tt[TableKey(g, depth, player_turn)][1],
          dir |-> tt[TableKey(g, depth, player_turn)][2],
          at |-> depth, tt |-> tt,
          calls |-> {Call(g, depth, player_turn, "hit", {}, 0)}]
    ELSE IF AtLeaf(g, depth, max_depth) THEN Leaf(g, depth, player_turn, tt, "leaf")
    ELSE IF player_turn THEN MaxNode(g, depth, max_depth, tt)
    ELSE ChanceNode(g, depth, max_depth, tt)

\* the table of an empty dict
EmptyTable == <<>>

\* ------------------------------------------------------------- the inputs

DirSet == {Directions[k] : k \in 1..Len(Directions)}

Values == {0} \cup {Pow2(e) : e \in 1..MaxExp}

Rows == [Idx -> Values]

\* the next tile value, cyclically; 0 stays 0
AltValue(v) == IF v = 0 THEN 0 ELSE IF v >= Pow2(MaxExp) THEN 2 ELSE 2 * v

Variants(a) ==
    {a, ZeroRow, [c \in Idx |-> a[N + 1 - c]], [c \in Idx |-> AltValue(a[c])]}

Transpose(g) == [r \in Idx |-> [c \in Idx |-> g[c][r]]]

\* boards whose rows (or columns) alternate between a line and a variant of it
ScenarioBoard == <<<<2, 2, 0, 0>>, ZeroRow, ZeroRow, ZeroRow>>

\* boards whose rows (or columns) alternate between a line and a variant of
\* it, and the board of the spec's concrete scenario
InputBoards ==
    LET base == UNION {{<<a, b, a, b>> : b \in Variants(a)} : a \in Rows}
    IN base \cup {Transpose(g) : g \in base} \cup {ScenarioBoard}

\* the outcomes of add_random_tile that the game specifications follow:
\* random.choice picks the first or the last empty cell
SpawnOutcomes(g) ==
    IF empty_cells(g) # <<>>
    THEN { SetCell(g, empty_cells(g)[k], v) : k \in {1, Len(empty_cells(g))}, v \in {2, 4} }
    ELSE {g}

\* initialize_game: the empty grid, then add_random_tile twice
initialize_game == UNION {SpawnOutcomes(g) : g \in SpawnOutcomes(EmptyGrid)}

\* ------------------------------------------------ Spec: single operations

Init ==
    /\ grid \in InputBoards
    /\ transposition_table = EmptyTable
    /\ pc = "input"
    /\ moves_made = 0
    /\ best_direction = None
    /\ arg = grid
    /\ op = <<"none", None>>
    /\ ret = None
    /\ searches = 0
    /\ old_keys = {}
    /\ NoHeap

Returned(name, param, value) ==
    /\ pc' = "output"
    /\ arg' = grid
    /\ op' = <<name, param>>
    /\ ret' = value
    /\ UNCHANGED <<transposition_table, moves_made, best_direction, searches, old_keys>>
    /\ UNCHANGED heapvars

\* new = move(grid, direction)
CallMove(direction) ==
    /\ pc = "input"
    /\ grid' = grid
    /\ Returned("move", direction, move(grid, direction))

\* new = merge_left(grid)
CallMergeLeft ==
    /\ pc = "input"
    /\ grid' = grid
    /\ Returned("merge_left", None, merge_left(grid))

\* add_random_tile(grid): writes into the caller's list, returns None
CallAddRandomTile ==
    /\ pc = "input"
    /\ grid' \in add_random_tile(grid)
    /\ Returned("add_random_tile", None, None)

\* game_over(grid)
CallGameOver ==
    /\ pc = "input"
    /\ grid' = grid
    /\ Returned("game_over", None, game_over(grid))

\* get_possible_moves(grid)
CallGetPossibleMoves ==
    /\ pc = "input"
    /\ grid' = grid
    /\ Returned("get_possible_moves", None, get_possible_moves(grid))

Next ==
    \/ \E direction \in DirSet : CallMove(direction)
    \/ CallMergeLeft
    \/ CallAddRandomTile
    \/ CallGameOver
    \/ CallGetPossibleMoves

Spec == Init /\ [][Next]_vars

\* ----------------------------------- SpecSearch: searches sharing a table

\* the full board with no two equal neighbours
Checker == <<<<2, 4, 2, 4>>, <<4, 2, 4, 2>>, <<2, 4, 2, 4>>, <<4, 2, 4, 2>>>>

\* the cells of the checkerboard that the search inputs vary
VariedCells == {<<1, 1>>, <<2, 3>>, <<4, 4>>}

\* the checkerboard with its first row pushed right by one cell: moving it
\* left and spawning a 4 gives the checkerboard
ShiftedChecker == <<<<0, 2, 4, 2>>, <<4, 2, 4, 2>>, <<2, 4, 2, 4>>, <<4, 2, 4, 2>>>>

\* the board that a move to the left turns into the same board as
\* ShiftedChecker, so that the searches of the two share nodes
GappedChecker == <<<<2, 0, 4, 2>>, <<4, 2, 4, 2>>, <<2, 4, 2, 4>>, <<4, 2, 4, 2>>>>

\* the checkerboard, the checkerboard with one cell emptied or doubled or
\* with its first row shifted or gapped, and the all-empty board
SearchBoards ==
    {Checker, EmptyGrid, ShiftedChecker, GappedChecker}
    \cup {SetCell(Checker, cell, 0) : cell \in VariedCells}
    \cup {SetCell(Checker, cell, 2 * Checker[cell[1]][cell[2]]) : cell \in VariedCells}

InitSearch ==
    /\ grid = EmptyGrid
    /\ transposition_table = EmptyTable
    /\ pc = "search"
    /\ moves_made = 0
    /\ best_direction = None
    /\ arg = grid
    /\ op = <<"none", None>>
    /\ ret = None
    /\ searches = 0
    /\ old_keys = {}
    /\ NoHeap

\* max_depth = 3 of play_game
max_depth == 3

\* _, best_direction = expectimax(board, depth=0, player_turn=True, max_depth=d)
TopLevelSearch(board, d) ==
    /\ \E r \in {expectimax(board, 0, TRUE, d, transposition_table)} :
          /\ transposition_table' = r.tt
          /\ best_direction' = r.dir
          /\ ret' = [score |-> r.score, dir |-> r.dir, calls |-> r.calls,
                     before |-> DOMAIN transposition_table]
    /\ grid' = board
    /\ arg' = board
    /\ op' = <<"expectimax", d>>
    /\ searches' = searches + 1
    /\ UNCHANGED <<moves_made, old_keys>>
    /\ UNCHANGED heapvars

\* a search as play_game makes it, with its max_depth; it leaves its entries
\* in the table for the searches after it
GameSearch(board) ==
    /\ pc = "search"
    /\ searches + 1 < MaxSearches
    /\ TopLevelSearch(board, max_depth)
    /\ pc' = pc

\* a search with any max_depth, on the table the searches before it left
DepthSearch(board, d) ==
    /\ pc = "search"
    /\ searches < MaxSearches
    /\ TopLevelSearch(board, d)
    /\ pc' = "searched"

NextSearch ==
    \E board \in SearchBoards :
        \/ GameSearch(board)
        \/ \E d \in 0..MaxDepthBound : DepthSearch(board, d)

SpecSearch == InitSearch /\ [][NextSearch]_vars

\* ------------------------------- SpecChance: one search from a chance node

\* the checkerboard with each varied cell kept, emptied or doubled
ChanceBoards ==
    { [r \in Idx |-> [c \in Idx |->
         IF <<r, c>> \in DOMAIN f
         THEN (CASE f[<<r, c>>] = 0 -> 0
                 [] f[<<r, c>>] = 1 -> Checker[r][c]
                 [] OTHER -> 2 * Checker[r][c])
         ELSE Checker[r][c]]] : f \in [VariedCells -> 0..2] }

\* expectimax(board, depth=0, player_turn=False, max_depth=d) on an empty table
ChanceSearch(board, d) ==
    /\ pc = "search"
    /\ \E r \in {expectimax(board, 0, FALSE, d, transposition_table)} :
          /\ transposition_table' = r.tt
          /\ best_direction' = r.dir
          /\ ret' = [score |-> r.score, dir |-> r.dir, calls |-> r.calls,
                     before |-> DOMAIN transposition_table]
    /\ grid' = board
    /\ arg' = board
    /\ op' = <<"expectimax_chance", d>>
    /\ searches' = searches + 1
    /\ pc' = "searched"
    /\ UNCHANGED <<moves_made, old_keys>>
    /\ UNCHANGED heapvars

NextChance ==
    \E board \in ChanceBoards : \E d \in 0..MaxDepthBound : ChanceSearch(board, d)

SpecChance == InitSearch /\ [][NextChance]_vars

\* ------------------------------------------ SpecGame: the play_game driver

\* a play_game that keeps the table of the game before
KeepTable(tt) == tt

\* transposition_table = {} at the start of play_game
NewGameTable(tt) == EmptyTable

InitGame ==
    /\ grid = EmptyGrid
    /\ transposition_table = EmptyTable
    /\ pc = "main"
    /\ moves_made = 0
    /\ best_direction = None
    /\ arg = grid
    /\ op = <<"none", None>>
    /\ ret = None
    /\ searches = 0
    /\ old_keys = {}
    /\ NoHeap

\* play_game up to its while loop: reset the table, initialize_game, zero the
\* counter.  op records whether the table held entries when the game began.
StartGame ==
    /\ pc = "main"
    /\ transposition_table' = NewGameTable(transposition_table)
    /\ old_keys' = old_keys \cap DOMAIN transposition_table'
    /\ grid' \in initialize_game
    /\ moves_made' = 0
    /\ pc' = "loop"
    /\ op' = <<"play_game", transposition_table # EmptyTable>>
    /\ arg' = EmptyGrid
    /\ best_direction' = None
    /\ ret' = None
    /\ UNCHANGED searches
    /\ UNCHANGED heapvars

\* one iteration of the while loop: search, then either break or move, spawn
\* and count.  ret records what the same search returns on an empty table.
Turn ==
    /\ pc = "loop"
    /\ ~ game_over(grid)
    /\ moves_made < move_limit
    /\ \E r \in {expectimax(grid, 0, TRUE, max_depth, transposition_table)} :
          /\ transposition_table' = r.tt
          /\ best_direction' = r.dir
          /\ ret' = expectimax(grid, 0, TRUE, max_depth, EmptyTable).dir
          /\ IF r.dir = None
             THEN /\ pc' = "final"
                  /\ grid' = grid
                  /\ moves_made' = moves_made
             ELSE /\ pc' = "loop"
                  /\ grid' \in SpawnOutcomes(move(grid, r.dir))
                  /\ moves_made' = moves_made + 1
    /\ arg' = grid
    /\ op' = <<"turn", transposition_table # EmptyTable>>
    /\ UNCHANGED <<searches, old_keys>>
    /\ UNCHANGED heapvars

\* the loop ends (or was left by break): play_game returns the largest tile
EndGame ==
    /\ \/ pc = "final"
       \/ pc = "loop" /\ (game_over(grid) \/ moves_made >= move_limit)
    /\ pc' = "main"
    /\ ret' = MaxCell(grid)
    /\ op' = <<"return", None>>
    /\ old_keys' = DOMAIN transposition_table
    /\ arg' = grid
    /\ UNCHANGED <<grid, transposition_table, moves_made, best_direction, searches>>
    /\ UNCHANGED heapvars

NextGame ==
    \/ StartGame
    \/ Turn
    \/ EndGame

SpecGame == InitGame /\ [][NextGame]_vars

\* --------------------------- SpecFree: any moves and spawns after a new game

InitFree ==
    /\ grid = EmptyGrid
    /\ transposition_table = EmptyTable
    /\ pc = "new"
    /\ moves_made = 0
    /\ best_direction = None
    /\ arg = grid
    /\ op = <<"none", None>>
    /\ ret = None
    /\ searches = 0
    /\ old_keys = {}
    /\ NoHeap

\* grid = initialize_game()
FreeInitialize ==
    /\ pc = "new"
    /\ grid' \in initialize_game
    /\ pc' = "free"
    /\ arg' = grid
    /\ op' = <<"initialize_game", None>>
    /\ UNCHANGED <<transposition_table, moves_made, best_direction, ret, searches, old_keys>>
    /\ UNCHANGED heapvars

\* grid = move(grid, direction)
FreeMove(direction) ==
    /\ pc = "free"
    /\ moves_made < MaxOps
    /\ grid' = move(grid, direction)
    /\ moves_made' = moves_made + 1
    /\ arg' = grid
    /\ op' = <<"move", direction>>
    /\ UNCHANGED <<transposition_table, pc, best_direction, ret, searches, old_keys>>
    /\ UNCHANGED heapvars

\* add_random_tile(grid)
FreeAddRandomTile ==
    /\ pc = "free"
    /\ moves_made < MaxOps
    /\ grid' \in SpawnOutcomes(grid)
    /\ moves_made' = moves_made + 1
    /\ arg' = grid
    /\ op' = <<"add_random_tile", None>>
    /\ UNCHANGED <<transposition_table, pc, best_direction, ret, searches, old_keys>>
    /\ UNCHANGED heapvars

\* expectimax(grid, depth=0, player_turn=True, max_depth=3) on the board
\* reached; the table then holds every board the search built
FreeSearch ==
    /\ pc = "free"
    /\ \E r \in {expectimax(grid, 0, TRUE, max_depth, transposition_table)} :
          /\ transposition_table' = r.tt
          /\ best_direction' = r.dir
    /\ pc' = "searched"
    /\ arg' = grid
    /\ op' = <<"expectimax", max_depth>>
    /\ UNCHANGED <<grid, moves_made, ret, searches, old_keys>>
    /\ UNCHANGED heapvars

NextFree ==
    \/ FreeInitialize
    \/ \E direction \in DirSet : FreeMove(direction)
    \/ FreeAddRandomTile
    \/ FreeSearch

SpecFree == InitFree /\ [][NextFree]_vars

\* ------------------------ SpecMono: monotonicity_heuristic on input boards

InitMono ==
    /\ grid \in InputBoards
    /\ transposition_table = EmptyTable
    /\ pc = "heuristic"
    /\ moves_made = 0
    /\ best_direction = None
    /\ arg = grid
    /\ op = <<"none", None>>
    /\ ret = None
    /\ searches = 0
    /\ old_keys = {}
    /\ NoHeap

\* monotonicity_heuristic(grid)
CallMonotonicityHeuristic ==
    /\ pc = "heuristic"
    /\ grid' = grid
    /\ pc' = "output"
    /\ arg' = grid
    /\ op' = <<"monotonicity_heuristic", None>>
    /\ ret' = monotonicity_heuristic(grid)
    /\ UNCHANGED <<transposition_table, moves_made, best_direction, searches, old_keys>>
    /\ UNCHANGED heapvars

NextMono == CallMonotonicityHeuristic

SpecMono == InitMono /\ [][NextMono]_vars

\* ------------------------- SpecHeap: the board operations on list objects

\* A Python board is a list of four row lists.  heap[k] is the content of the
\* row list with reference k; a board is the sequence of its row references.

\* the board read through its row references
Contents(H, refs) == ListOf([r \in Idx |-> H[refs[r]]])

\* four new row lists holding the rows of the board value b
Alloc(H, b) ==
    [heap |-> H \o b, refs |-> <<Len(H) + 1, Len(H) + 2, Len(H) + 3, Len(H) + 4>>]

\* merge_left: every new_row is a new list, appended to the new list new_grid
HeapMergeLeft(H, refs) == Alloc(H, merge_left(Contents(H, refs)))

\* reverse: [row[::-1] for row in grid]
HeapReverse(H, refs) == Alloc(H, reverse(Contents(H, refs)))

\* rotate's loop: each pass builds [list(row) for row in zip(*grid[::-1])];
\* with no pass the argument itself is returned
RECURSIVE HeapRotateTimes(_, _, _)
HeapRotateTimes(H, refs, k) ==
    IF k = 0 THEN [heap |-> H, refs |-> refs]
    ELSE Bind(Alloc(H, RotateOnce(Contents(H, refs))),
              LAMBDA one : HeapRotateTimes(one.heap, one.refs, k - 1))

HeapRotate(H, refs, times) == HeapRotateTimes(H, refs, times % 4)

\* move: the local name grid is rebound to the lists the helpers return
HeapMove(H, refs, direction) ==
    CASE direction = "up" ->
           Bind(HeapRotate(H, refs, 1), LAMBDA grid_rotated :
           Bind(HeapMergeLeft(grid_rotated.heap, grid_rotated.refs), LAMBDA merged_grid :
                HeapRotate(merged_grid.heap, merged_grid.refs, -1)))
      [] direction = "down" ->
           Bind(HeapRotate(H, refs, -1), LAMBDA grid_rotated :
           Bind(HeapMergeLeft(grid_rotated.heap, grid_rotated.refs), LAMBDA merged_grid :
                HeapRotate(merged_grid.heap, merged_grid.refs, 1)))
      [] direction = "left" -> HeapMergeLeft(H, refs)
      [] direction = "right" ->
           Bind(HeapReverse(H, refs), LAMBDA grid_reversed :
           Bind(HeapMergeLeft(grid_reversed.heap, grid_reversed.refs), LAMBDA merged_grid :
                HeapReverse(merged_grid.heap, merged_grid.refs)))
      [] OTHER -> [heap |-> H, refs |-> refs]

\* grid[row][col] = value: a write into the row list itself
HeapSetCell(H, refs, cell, value) == [H EXCEPT ![refs[cell[1]]][cell[2]] = value]

\* add_random_tile: the heaps after the write into the caller's own rows
HeapAddRandomTile(H, refs) ==
    IF empty_cells(Contents(H, refs)) # <<>>
    THEN { HeapSetCell(H, refs, empty_cells(Contents(H, refs))[k], v) :
             k \in 1..Len(empty_cells(Contents(H, refs))), v \in {2, 4} }
    ELSE {H}

\* a copy of the outer list only: the rows stay shared
HeapShallowCopy(H, refs) == [heap |-> H, refs |-> refs]

\* grid_new = [row[:] for row in grid]
HeapCopyRows(H, refs) == Alloc(H, Contents(H, refs))

\* the body of the chance loops: copy the rows, then grid_new[r][c] = value
HeapExpand(H, refs, cell, value) ==
    Bind(HeapCopyRows(H, refs),
         LAMBDA grid_new : [heap |-> HeapSetCell(grid_new.heap, grid_new.refs, cell, value),
                            refs |-> grid_new.refs])

\* the boards the object view starts from
HeapBoards == {EmptyGrid, ScenarioBoard, ShiftedChecker}

\* a board built as initialize_game builds one: four separate row lists
InitHeap ==
    /\ grid \in HeapBoards
    /\ heap = grid
    /\ held = <<1, 2, 3, 4>>
    /\ given = <<>>
    /\ transposition_table = EmptyTable
    /\ pc = "heap"
    /\ moves_made = 0
    /\ best_direction = None
    /\ arg = grid
    /\ op = <<"none", None>>
    /\ ret = None
    /\ searches = 0
    /\ old_keys = {}

\* what every call of the object view records
HeapCalled(name, param) ==
    /\ pc = "heap"
    /\ moves_made < MaxOps
    /\ moves_made' = moves_made + 1
    /\ given' = held
    /\ arg' = grid
    /\ op' = <<name, param>>
    /\ UNCHANGED <<transposition_table, pc, best_direction, searches, old_keys>>

\* grid = move(grid, direction), as play_game and get_possible_moves call it
HeapCallMove(direction) ==
    /\ HeapCalled("move", direction)
    /\ \E r \in {HeapMove(heap, held, direction)} :
          /\ heap' = r.heap
          /\ held' = r.refs
          /\ ret' = [returned |-> "board", refs |-> r.refs]
    /\ grid' = move(grid, direction)

\* add_random_tile(grid), as play_game and initialize_game call it
HeapCallAddRandomTile ==
    /\ HeapCalled("add_random_tile", None)
    /\ heap' \in {h \in HeapAddRandomTile(heap, held) : Contents(h, held) \in SpawnOutcomes(grid)}
    /\ held' = held
    /\ ret' = [returned |-> None, refs |-> <<>>]
    /\ grid' = Contents(heap', held)

\* one pass of the chance loops of expectimax; the recursive call then holds
\* grid_new
HeapCallExpand(cell, value) ==
    /\ HeapCalled("expand", value)
    /\ grid[cell[1]][cell[2]] = 0
    /\ \E r \in {HeapExpand(heap, held, cell, value)} :
          /\ heap' = r.heap
          /\ held' = r.refs
          /\ ret' = [returned |-> "board", refs |-> r.refs]
    /\ grid' = SetCell(grid, cell, value)

NextHeap ==
    \/ \E direction \in DirSet : HeapCallMove(direction)
    \/ HeapCallAddRandomTile
    \/ \E cell \in VariedCells : \E value \in {2, 4} : HeapCallExpand(cell, value)

SpecHeap == InitHeap /\ [][NextHeap]_vars

\* ------------------------------------------- reference left-merge of a line

RECURSIVE RefCompact(_)
RefCompact(line) ==
    IF line = <<>> THEN <<>>
    ELSE IF Head(line) = 0 THEN RefCompact(Tail(line))
    ELSE <<Head(line)>> \o RefCompact(Tail(line))

\* equal neighbours merge once, left to right; a merged tile is final
RECURSIVE RefMerge(_)
RefMerge(s) ==
    IF Len(s) < 2 THEN s
    ELSE IF s[1] = s[2] THEN <<2 * s[1]>> \o RefMerge(SubSeq(s, 3, Len(s)))
    ELSE <<s[1]>> \o RefMerge(Tail(s))

RefPad(s) == [k \in Idx |-> IF k <= Len(s) THEN s[k] ELSE 0]

RefMergeLine(line) == RefPad(RefMerge(RefCompact(line)))

RefRev(line) == <<line[4], line[3], line[2], line[1]>>

\* every column read from the top row, merged, written back from the top row
RefUp(B) ==
    LET col(j) == RefMergeLine(<<B[1][j], B[2][j], B[3][j], B[4][j]>>)
    IN [r \in Idx |-> [c \in Idx |-> col(c)[r]]]

\* every column read from the bottom row, merged, written back from the bottom
RefDown(B) ==
    LET col(j) == RefMergeLine(<<B[4][j], B[3][j], B[2][j], B[1][j]>>)
    IN [r \in Idx |-> [c \in Idx |-> col(c)[N + 1 - r]]]

CountNonZero(g) == N * N - empty_tile_heuristic(g)

\* --------------------------------------------------------------- claims

\* C1: move(B, 'up') slides and merges every column toward the top row (row
\* index 0) and move(B, 'down') toward the bottom row (row index 3): each
\* equals the reference that reads the column from the target edge,
\* left-merges it and writes it back in the same orientation.
C1_UpDownTowardNamedEdge ==
    /\ (op = <<"move", "up">> => ret = RefUp(arg))
    /\ (op = <<"move", "down">> => ret = RefDown(arg))

\* C2: merge_left compacts the non-zero tiles of every row leftward in order,
\* merges equal neighbours left to right, never merges a tile produced by a
\* merge of the same pass, and pads with zeros to length 4; [2,2,2,2] gives
\* [4,4,0,0], [4,2,2,4] gives [4,4,4,0] and [2,2,4,0] gives [4,4,0,0].
C2_MergeLeftSingleMerge ==
    op[1] = "merge_left" =>
        \A r \in Idx :
            /\ Len(ret[r]) = N
            /\ ret[r] = RefMergeLine(arg[r])
            /\ (arg[r] = <<2, 2, 2, 2>> => ret[r] = <<4, 4, 0, 0>>)
            /\ (arg[r] = <<4, 2, 2, 4>> => ret[r] = <<4, 4, 4, 0>>)
            /\ (arg[r] = <<2, 2, 4, 0>> => ret[r] = <<4, 4, 0, 0>>)

C2_Witness ==
    /\ op[1] = "merge_left"
    /\ arg[1] = <<4, 2, 2, 4>>
    /\ arg[2] = <<2, 4, 4, 2>>
    /\ ret[1] = <<4, 4, 4, 0>>

\* C3: for every board of zeros and powers of two, the all-empty board
\* included, game_over is true exactly when get_possible_moves is empty.
C3_GameOverIffNoMoves ==
    op[1] = "game_over" => (ret <=> (get_possible_moves(arg) = <<>>))

\* C6: on a board with an empty cell add_random_tile changes exactly one cell,
\* which was 0 and becomes 2 or 4, so the count of non-zero cells rises by
\* one and every other cell is unchanged; on a full board it changes nothing.
C6_SpawnChangesOneEmptyCell ==
    op[1] = "add_random_tile" =>
        LET changed == {rc \in Idx \X Idx : grid[rc[1]][rc[2]] # arg[rc[1]][rc[2]]}
        IN IF \E rc \in Idx \X Idx : arg[rc[1]][rc[2]] = 0
           THEN /\ Cardinality(changed) = 1
                /\ \A rc \in changed : /\ arg[rc[1]][rc[2]] = 0
                                       /\ grid[rc[1]][rc[2]] \in {2, 4}
                /\ CountNonZero(grid) = CountNonZero(arg) + 1
           ELSE grid = arg

C6_Witness ==
    /\ op[1] = "add_random_tile"
    /\ CountNonZero(arg) = 8
    /\ arg[2][3] = 0
    /\ grid[2][3] = 4

\* C7: move(B, 'left') equals merge_left(B) and move(B, 'right') equals
\* reverse, merge_left, reverse, so every row slides toward column 0,
\* respectively column 3; the scenario board moved left gives [4,0,0,0] in
\* the first row and zeros elsewhere.
C7_LeftRightAreRowMerges ==
    /\ (op = <<"move", "left">> =>
            /\ ret = merge_left(arg)
            /\ \A r \in Idx : ret[r] = RefMergeLine(arg[r])
            /\ (arg = ScenarioBoard => ret = <<<<4, 0, 0, 0>>, ZeroRow, ZeroRow, ZeroRow>>))
    /\ (op = <<"move", "right">> =>
            /\ ret = reverse(merge_left(reverse(arg)))
            /\ \A r \in Idx : ret[r] = RefRev(RefMergeLine(RefRev(arg[r]))))

C7_Witness ==
    /\ op = <<"move", "right">>
    /\ arg[1] = <<2, 2, 4, 0>>
    /\ ret[1] = <<0, 0, 4, 4>>

\* no empty cell and no two equal horizontally or vertically adjacent cells
IsTerminal(g) ==
    /\ \A r \in Idx : \A c \in Idx : g[r][c] # 0
    /\ \A r \in Idx : \A c \in 1..(N - 1) : g[r][c] # g[r][c + 1]
    /\ \A r \in 1..(N - 1) : \A c \in Idx : g[r][c] # g[r + 1][c]

\* C4: on a terminal board a top-level search returns no direction, for every
\* max_depth and whatever the table holds from the searches before it.
C4_TerminalBoardNoDirection ==
    (op[1] = "expectimax" /\ IsTerminal(arg)) =>
        /\ ret.dir = None
        /\ best_direction = None

C4_Witness ==
    /\ op = <<"expectimax", 3>>
    /\ IsTerminal(arg)
    /\ searches = 2
    /\ \E k \in ret.before : k[1] # arg /\ k[2] = 0
    /\ \E k \in ret.before : k[1] = arg /\ k[2] = 2
    /\ ret.dir = None

IsTile(v) == v >= 2 /\ Pow2(Log2(v)) = v

WellFormed(g) ==
    /\ DOMAIN g = Idx
    /\ \A r \in Idx : /\ DOMAIN g[r] = Idx
                      /\ \A c \in Idx : g[r][c] = 0 \/ IsTile(g[r][c])

\* C5: after initialize_game and any sequence of moves (any direction) and
\* spawns, and in every board a search builds, the board is 4x4 and every
\* cell is 0 or a power of two that is at least 2.
C5_CellsZeroOrPowerOfTwo ==
    /\ WellFormed(grid)
    /\ \A k \in DOMAIN transposition_table : WellFormed(k[1])

C5_Witness ==
    /\ pc = "searched"
    /\ moves_made = 2
    /\ \E r \in Idx : \E c \in Idx : grid[r][c] = 8
    /\ \E k \in DOMAIN transposition_table :
          /\ k[2] = 3
          /\ CountNonZero(k[1]) > CountNonZero(grid)

\* C8: the direction chosen at every turn of play_game is the one the search
\* returns for that board on an empty table, so it depends on the board alone
\* and not on what the table accumulated; the board after the turn is that
\* move followed by one spawn.  Two runs with the same spawn outcomes
\* therefore make the same moves and end on the same board.
C8_DirectionDependsOnBoardOnly ==
    op[1] = "turn" =>
        /\ best_direction = ret
        /\ (best_direction # None => grid \in add_random_tile(move(arg, ret)))

C8_Witness ==
    /\ op = <<"turn", TRUE>>
    /\ moves_made = 2
    /\ best_direction \in DirSet
    /\ TableKey(arg, 2, TRUE) \in DOMAIN transposition_table
    /\ TableKey(arg, 0, TRUE) \in DOMAIN transposition_table

\* C9: in a top-level search with max_depth d every call runs at a depth in
\* 0..d, every recursive call is made at the caller's depth plus one, and a
\* call at depth d returns without recursing; the search returns.
C9_DepthBoundedRecursion ==
    op[1] = "expectimax" =>
        /\ \E c \in ret.calls : c.depth = 0 /\ c.grid = arg /\ c.player_turn
        /\ \A c \in ret.calls :
              /\ c.depth \in 0..op[2]
              /\ c.child_depths \subseteq {c.depth + 1}
              /\ (c.nchildren > 0 => c.child_depths = {c.depth + 1})
              /\ (c.depth = op[2] => c.nchildren = 0 /\ c.child_depths = {})

C9_Witness ==
    /\ op = <<"expectimax", 3>>
    /\ \E c \in ret.calls : c.depth = 3 /\ c.how = "leaf" /\ ~ c.player_turn
    /\ \E c \in ret.calls : c.depth = 2 /\ c.how = "max" /\ c.nchildren > 1
    /\ \E c \in ret.calls : c.depth = 1 /\ c.how = "chance" /\ c.nchildren = 2

\* C10: the table is empty when a game begins, and while a game runs the table
\* holds no entry that was stored while an earlier game ran.
C10_TableEmptyAtGameStart ==
    /\ (op[1] = "play_game" => transposition_table = EmptyTable)
    /\ (pc \in {"loop", "final"} => old_keys \cap DOMAIN transposition_table = {})

C10_Witness ==
    /\ op = <<"play_game", TRUE>>
    /\ pc = "loop"
    /\ transposition_table = EmptyTable

\* two equal non-zero tiles next to each other along the axis of a direction
EqualNeighboursAlong(g, direction) ==
    IF direction \in {"left", "right"}
    THEN \E r \in Idx : \E c \in 1..(N - 1) : g[r][c] # 0 /\ g[r][c] = g[r][c + 1]
    ELSE \E r \in 1..(N - 1) : \E c \in Idx : g[r][c] # 0 /\ g[r][c] = g[r + 1][c]

\* C11: when move(B, D) leaves no two equal non-zero tiles adjacent along the
\* axis of D, moving the result in direction D again gives the same board.
C11_MoveIdempotentOnceCompacted ==
    (op[1] = "move" /\ ~ EqualNeighboursAlong(ret, op[2])) => move(ret, op[2]) = ret

\* a move that merged and shifted, left nothing to merge, and is then stable
C11_Witness ==
    /\ op = <<"move", "down">>
    /\ ret # arg
    /\ CountNonZero(ret) < CountNonZero(arg)
    /\ ~ EqualNeighboursAlong(ret, "down")
    /\ move(ret, "down") = ret

\* where the first move leaves equal neighbours the second one merges again
C11_SecondMoveMerges ==
    /\ op = <<"move", "left">>
    /\ EqualNeighboursAlong(ret, "left")
    /\ move(ret, "left") # ret

\* C12: a top-level search at play_game's max_depth, made on a table that
\* earlier searches at that max_depth filled, returns the (score, direction)
\* it returns on an empty table; every lookup that hits is for a key the
\* table held before the search or that the search itself stored.
C12_SharedTableSameResult ==
    (op = <<"expectimax", max_depth>>) =>
        /\ \E pure \in {expectimax(arg, 0, TRUE, max_depth, EmptyTable)} :
              /\ ret.score = pure.score
              /\ ret.dir = pure.dir
              /\ best_direction = pure.dir
        /\ \A c \in ret.calls :
              c.how = "hit" =>
                 /\ TableKey(c.grid, c.depth, c.player_turn) \in DOMAIN transposition_table
                 /\ \/ TableKey(c.grid, c.depth, c.player_turn) \in ret.before
                    \/ \E st \in ret.calls :
                          /\ st.how # "hit"
                          /\ st.grid = c.grid
                          /\ st.depth = c.depth
                          /\ st.player_turn = c.player_turn

\* a second search, of a board not searched before, that hits below the root
\* on an entry of the first search and returns a direction
C12_Witness ==
    /\ op = <<"expectimax", max_depth>>
    /\ searches = 2
    /\ TableKey(arg, 0, TRUE) \notin ret.before
    /\ ret.dir \in DirSet
    /\ \E c \in ret.calls :
          /\ c.how = "hit"
          /\ c.depth > 0
          /\ TableKey(c.grid, c.depth, c.player_turn) \in ret.before

\* C13: a cached result is returned only to a node with the remaining depth
\* (max_depth minus depth) of the node that stored it.  The entries the table
\* holds before a search were stored by searches with play_game's max_depth,
\* so a search with another max_depth hits none of them.
C13_KeyHoldsRemainingDepth ==
    (op[1] = "expectimax" /\ op[2] # max_depth) =>
        \A c \in ret.calls :
           c.how = "hit" => TableKey(c.grid, c.depth, c.player_turn) \notin ret.before

\* the position of a direction in the fixed order up, down, left, right
DirIndex(direction) == CHOOSE k \in 1..Len(Directions) : Directions[k] = direction

\* the directions that change a board
ChangingDirs(g) == {d \in DirSet : move(g, d) # g}

\* a <= b on scores, by the sign of b - a
ScoreLeq(a, b) ==
    \/ IsNegInf(a)
    \/ ~ IsNegInf(b) /\ AddFrac(b, [n |-> 0 - a.n, d |-> a.d]).n >= 0

\* the score the table holds for the chance node that follows direction d
ChildScore(tt, g, depth, d) == tt[TableKey(move(g, d), depth + 1, FALSE)][1]

\* C14: every maximizing node that a search expands (depth below max_depth,
\* board not game over) evaluates exactly the directions that change the
\* board, each as a chance node one level down; the score it stores and
\* returns is the largest of their scores and its direction is the first of
\* up, down, left, right whose score is that largest one; a direction that
\* leaves the board as it is is neither evaluated nor returned.
C14_MaxNodeTakesFirstBest ==
    op[1] = "expectimax" =>
        \A c \in ret.calls :
           c.how = "max" =>
              /\ c.player_turn /\ c.depth < op[2] /\ ~ game_over(c.grid)
              /\ c.nchildren = Cardinality(ChangingDirs(c.grid))
              /\ \A d \in ChangingDirs(c.grid) :
                    \E ch \in ret.calls :
                       ch.grid = move(c.grid, d) /\ ch.depth = c.depth + 1 /\ ~ ch.player_turn
              /\ \E e \in {transposition_table[TableKey(c.grid, c.depth, TRUE)]} :
                    IF ChangingDirs(c.grid) = {}
                    THEN e[2] = None
                    ELSE /\ e[2] \in ChangingDirs(c.grid)
                         /\ e[1] = ChildScore(transposition_table, c.grid, c.depth, e[2])
                         /\ \A d \in ChangingDirs(c.grid) :
                               /\ ScoreLeq(ChildScore(transposition_table, c.grid, c.depth, d),
                                           e[1])
                               /\ (ChildScore(transposition_table, c.grid, c.depth, d) = e[1]
                                      => DirIndex(e[2]) <= DirIndex(d))
              /\ (c.depth = 0 =>
                    /\ ret.score = transposition_table[TableKey(c.grid, 0, TRUE)][1]
                    /\ ret.dir = transposition_table[TableKey(c.grid, 0, TRUE)][2])

\* a search that expanded a maximizing node below the root where two
\* directions tie for the best score and the earlier of them is returned, one
\* where a direction is a no-op, and one where the best is not the first
C14_Witness ==
    /\ op = <<"expectimax", max_depth>>
    /\ \E c \in ret.calls :
          /\ c.how = "max" /\ c.depth = 2
          /\ c.nchildren \in 2..3
          /\ transposition_table[TableKey(c.grid, 2, TRUE)][2] \in ChangingDirs(c.grid)
    /\ \E c \in ret.calls :
          /\ c.how = "max" /\ c.depth = 2
          /\ \E d1 \in ChangingDirs(c.grid) : \E d2 \in ChangingDirs(c.grid) :
                /\ DirIndex(d1) < DirIndex(d2)
                /\ transposition_table[TableKey(c.grid, 2, TRUE)][2] = d1
                /\ ChildScore(transposition_table, c.grid, 2, d1)
                     = ChildScore(transposition_table, c.grid, 2, d2)
    /\ \E c \in ret.calls :
          /\ c.how = "max"
          /\ \E d1 \in ChangingDirs(c.grid) :
                DirIndex(d1) < DirIndex(transposition_table[TableKey(c.grid, c.depth, TRUE)][2])

\* the cells of a board that hold 0
EmptySet(g) == {rc \in Idx \X Idx : g[rc[1]][rc[2]] = 0}

\* the score the table holds for the maximizing node with cell rc set to v
SpawnScore(tt, g, depth, rc, v) == tt[TableKey(SetCell(g, rc, v), depth + 1, TRUE)][1]

\* the sum over the cells of S of 9 * (score with a 2) + 1 * (score with a 4)
RECURSIVE WeightedSum(_, _, _, _)
WeightedSum(S, tt, g, depth) ==
    IF S = {} THEN Frac(0, 1)
    ELSE LET rc == CHOOSE x \in S : TRUE
             two == SpawnScore(tt, g, depth, rc, 2)
             four == SpawnScore(tt, g, depth, rc, 4)
         IN AddFrac(AddFrac(Frac(9 * two.n, two.d), four),
                    WeightedSum(S \ {rc}, tt, g, depth))

\* C15: every chance node that a search expands (depth below max_depth, n >= 1
\* empty cells) has exactly 2n maximizing children one level down, the boards
\* with one empty cell set to 2 or to 4; it returns no direction and the
\* score (1/n) * sum over the cells of (0.9 * score with 2 + 0.1 * score with
\* 4); a chance node below max_depth with no empty cell returns the heuristic
\* score of its board and no direction.
C15_ChanceNodeWeightedAverage ==
    op[1] = "expectimax_chance" =>
        /\ ret.dir = None
        /\ ret.score = transposition_table[TableKey(arg, 0, FALSE)][1]
        /\ \A c \in ret.calls :
              /\ c.how = "chance" =>
                    /\ ~ c.player_turn /\ c.depth < op[2]
                    /\ EmptySet(c.grid) # {}
                    /\ c.nchildren = 2 * Cardinality(EmptySet(c.grid))
                    /\ \A rc \in EmptySet(c.grid) : \A v \in {2, 4} :
                          \E ch \in ret.calls :
                             /\ ch.grid = SetCell(c.grid, rc, v)
                             /\ ch.depth = c.depth + 1
                             /\ ch.player_turn
                    /\ \E e \in {transposition_table[TableKey(c.grid, c.depth, FALSE)]} :
                       \E total \in {WeightedSum(EmptySet(c.grid), transposition_table,
                                                 c.grid, c.depth)} :
                          /\ e[2] = None
                          /\ e[1] = Frac(total.n,
                                         total.d * 10 * Cardinality(EmptySet(c.grid)))
              /\ c.how = "full" =>
                    /\ ~ c.player_turn /\ c.depth < op[2]
                    /\ EmptySet(c.grid) = {}
                    /\ c.nchildren = 0
                    /\ transposition_table[TableKey(c.grid, c.depth, FALSE)]
                         = <<Frac(combined_heuristic(c.grid), 1), None>>

\* a search from a chance node with three empty cells that also expands
\* chance nodes two levels down
C15_Witness ==
    /\ op = <<"expectimax_chance", max_depth>>
    /\ Cardinality(EmptySet(arg)) = 3
    /\ \E c \in ret.calls : c.how = "chance" /\ c.depth = 0 /\ c.nchildren = 6
    /\ \E c \in ret.calls : c.how = "chance" /\ c.depth = 2 /\ c.nchildren >= 4
    /\ ret.score # Frac(combined_heuristic(arg), 1)

\* a search from a chance node that has no empty cell and is not game over
C15_FullBoardWitness ==
    /\ op = <<"expectimax_chance", max_depth>>
    /\ EmptySet(arg) = {}
    /\ ~ game_over(arg)
    /\ \E c \in ret.calls : c.how = "full" /\ c.depth = 0
    /\ ret.score = Frac(combined_heuristic(arg), 1)

\* C16: a search from a maximizing node whose board has no possible move
\* returns the heuristic score of that board, a finite number, and no
\* direction.
C16_NoMovesReturnsHeuristic ==
    (op[1] = "expectimax" /\ get_possible_moves(arg) = <<>>) =>
        /\ ret.dir = None
        /\ ~ IsNegInf(ret.score)
        /\ ret.score = Frac(combined_heuristic(arg), 1)

\* the cells where two boards differ
DiffCells(g, h) == {rc \in Idx \X Idx : g[rc[1]][rc[2]] # h[rc[1]][rc[2]]}

\* C17: at every turn of play_game (board not game over, fewer than
\* move_limit moves made) the search returns a direction that changes the
\* board, the break on `best_direction is None` is not taken, the board after
\* the turn is the moved board with exactly one empty cell set to 2 or 4, and
\* play_game returns only on a game-over board or at the move limit.
C17_TurnAlwaysMoves ==
    /\ pc # "final"
    /\ op[1] = "turn" =>
          /\ best_direction \in ChangingDirs(arg)
          /\ moves_made >= 1
          /\ \E rc \in Idx \X Idx :
                /\ DiffCells(grid, move(arg, best_direction)) = {rc}
                /\ move(arg, best_direction)[rc[1]][rc[2]] = 0
                /\ grid[rc[1]][rc[2]] \in {2, 4}
    /\ op[1] = "return" => (game_over(grid) \/ moves_made >= move_limit)

\* a second turn, reached after a merge, that moved and spawned
C17_Witness ==
    /\ op = <<"turn", TRUE>>
    /\ moves_made = 2
    /\ pc = "loop"
    /\ best_direction \in ChangingDirs(arg)
    /\ CountNonZero(grid) <= 3

\* the references in a board
RefsOf(refs) == {refs[k] : k \in DOMAIN refs}

\* C18 as claimed: after move, add_random_tile and the chance-node expansion
\* the board that was passed holds the values it held before the call, and
\* the call returned a new board.
C18_EveryCallLeavesBoardUnchanged ==
    op[1] \in {"move", "add_random_tile", "expand"} =>
        /\ Contents(heap, given) = arg
        /\ ret.returned = "board"

\* C18 amended: move and the chance-node expansion leave the rows of the
\* board they were passed unchanged and return a board built of new rows, with
\* the values of the value model; add_random_tile returns None and writes its
\* tile into the board it was passed (one empty cell becomes 2 or 4, or
\* nothing changes on a full board).
C18_MoveAndSearchLeaveBoardUnchanged ==
    /\ grid = Contents(heap, held)
    /\ op[1] \in {"move", "expand"} =>
          /\ Contents(heap, given) = arg
          /\ ret = [returned |-> "board", refs |-> held]
          /\ RefsOf(held) \cap RefsOf(given) = {}
          /\ Cardinality(RefsOf(held)) = N
    /\ op[1] = "move" => grid = move(arg, op[2])
    /\ op[1] = "expand" =>
          /\ Cardinality(DiffCells(grid, arg)) = 1
          /\ \A rc \in DiffCells(grid, arg) :
                arg[rc[1]][rc[2]] = 0 /\ grid[rc[1]][rc[2]] = op[2]
    /\ op[1] = "add_random_tile" =>
          /\ ret.returned = None
          /\ held = given
          /\ Contents(heap, given) \in add_random_tile(arg)

\* a chance-node expansion of a board that a move returned: the moved board
\* keeps its values while the new board holds the tile
C18_Witness ==
    /\ op[1] = "expand"
    /\ moves_made = 2
    /\ Len(heap) > 8
    /\ Contents(heap, given) = arg
    /\ Contents(heap, held) # arg
    /\ arg \notin HeapBoards

\* add_random_tile changed the board it was passed
C18_SpawnWritesInPlace ==
    /\ op[1] = "add_random_tile"
    /\ ret.returned = None
    /\ Contents(heap, given) # arg

\* the sum of all sixteen cells
TileSum(g) == SumRange([k \in 1..(N * N) |-> g[AllCells[k][1]][AllCells[k][2]]], 1, N * N)

\* C19: on every board of a game a move in any direction keeps the sum of the
\* tiles and never adds a non-zero cell; a turn of play_game that moves raises
\* the sum by exactly 2 or 4; and every board from initialize_game onwards
\* holds a tile.
C19_MoveKeepsSumTurnAddsTile ==
    /\ \A direction \in DirSet :
          /\ TileSum(move(grid, direction)) = TileSum(grid)
          /\ CountNonZero(move(grid, direction)) <= CountNonZero(grid)
    /\ (op[1] = "turn" /\ best_direction # None) =>
          /\ TileSum(move(arg, best_direction)) = TileSum(arg)
          /\ TileSum(grid) - TileSum(arg) \in {2, 4}
    /\ op[1] # "none" => CountNonZero(grid) >= 1

\* the second turn merged two tiles and then spawned a 4
C19_Witness ==
    /\ op[1] = "turn"
    /\ best_direction # None
    /\ moves_made = 2
    /\ CountNonZero(move(arg, best_direction)) < CountNonZero(arg)
    /\ TileSum(move(arg, best_direction)) = TileSum(arg)
    /\ TileSum(grid) = TileSum(arg) + 4

\* the base-2 exponent of a cell, 0 for an empty cell
Exponent(v) == IF v = 0 THEN 0 ELSE CHOOSE e \in 0..16 : Pow2(e) = v

\* by how much the exponent drops from a to b, 0 when it does not drop
Drop(a, b) == IF Exponent(a) > Exponent(b) THEN Exponent(a) - Exponent(b) ELSE 0

\* the drops of the twelve consecutive pairs of the rows, left to right
RowFalls(g) == SumRange([k \in 1..(N * N) |->
    IF AllCells[k][2] < N THEN Drop(g[AllCells[k][1]][AllCells[k][2]], g[AllCells[k][1]][AllCells[k][2] + 1]) ELSE 0], 1, N * N)

\* the climbs of the twelve consecutive pairs of the rows, left to right
RowRises(g) == SumRange([k \in 1..(N * N) |->
    IF AllCells[k][2] < N THEN Drop(g[AllCells[k][1]][AllCells[k][2] + 1], g[AllCells[k][1]][AllCells[k][2]]) ELSE 0], 1, N * N)

ColFalls(g) == RowFalls(Transpose(g))

ColRises(g) == RowRises(Transpose(g))

\* C20 as stated: the decreasing buckets hold the negative deltas of the
\* falls, the increasing buckets the positive deltas of the rises, and the
\* result is the sum of the larger bucket of the rows and of the columns.
C20_IncreasingBucketPositive ==
    op[1] = "monotonicity_heuristic" =>
       /\ MonoTotals(arg) = <<- RowFalls(arg), RowRises(arg), - ColFalls(arg), ColRises(arg)>>
       /\ ret = MaxOf(RowRises(arg), - RowFalls(arg)) + MaxOf(ColRises(arg), - ColFalls(arg))

\* C20, amended: both buckets of a direction hold negated amounts, the
\* decreasing one minus the falls and the increasing one minus the rises, so
\* the result is never positive; it is the sum of the larger bucket of the
\* rows and of the columns.
C20_BothBucketsNegated ==
    op[1] = "monotonicity_heuristic" =>
       /\ MonoTotals(arg) = <<- RowFalls(arg), - RowRises(arg), - ColFalls(arg), - ColRises(arg)>>
       /\ ret = MaxOf(- RowRises(arg), - RowFalls(arg)) + MaxOf(- ColRises(arg), - ColFalls(arg))
       /\ ret <= 0

\* a board whose rows both rise and fall, the rises being the smaller total,
\* and whose columns rise too
C20_Witness ==
    /\ op[1] = "monotonicity_heuristic"
    /\ RowRises(arg) > 0
    /\ RowFalls(arg) > RowRises(arg)
    /\ ColRises(arg) > 0
    /\ ret = - RowRises(arg) + MaxOf(- ColRises(arg), - ColFalls(arg))
    /\ ret < 0

====
